---------------------------- MODULE Spec2Model ----------------------------
(***************************************************************************)
(* Model of telegram_export_md.py: the channel-identifier normalizer, the  *)
(* membership resolver and the streaming export pipeline.                  *)
(*                                                                         *)
(* Strings are sequences of one-character strings, so that stripping,      *)
(* regular-expression matching, formatting and file contents are computed  *)
(* character by character.                                                 *)
(***************************************************************************)
EXTENDS Integers, Sequences, FiniteSets, TLC

\* ------------------------------------------------------------------ bounds
\* longest message history of the short runs
MaxMsgs == 3
\* number of chunks an arbitrary raw identifier is assembled from
MaxChunks == 4
\* longest channel name of the accepted identifier forms
MaxNameLen == 2
\* length of the long histories (progress notices)
LongLen == 1001

\* ----------------------------------------------------------------- strings
Drop(s, n) == SubSeq(s, n + 1, Len(s))

StartsWith(s, p) == Len(s) >= Len(p) /\ SubSeq(s, 1, Len(p)) = p

\* s contains p as a contiguous substring
Contains(s, p) ==
    \E i \in 1..(Len(s) - Len(p) + 1) : SubSeq(s, i, i + Len(p) - 1) = p

\* characters str.strip() removes
Whitespace == {" ", "\n", "\t"}

RECURSIVE LStrip(_)
LStrip(s) ==
    IF s # <<>> /\ Head(s) \in Whitespace THEN LStrip(Tail(s)) ELSE s

RECURSIVE RStrip(_)
RStrip(s) ==
    IF s # <<>> /\ s[Len(s)] \in Whitespace
    THEN RStrip(SubSeq(s, 1, Len(s) - 1))
    ELSE s

\* str.lstrip() in place of str.strip()
strip_left(s) == LStrip(s)

\* str.strip()
strip(s) == RStrip(LStrip(s))

\* the longest prefix of s that the regular expression ".*" matches:
\* "." is any character but a newline
RECURSIVE DotStar(_)
DotStar(s) ==
    IF s = <<>> \/ Head(s) = "\n" THEN <<>> ELSE <<Head(s)>> \o DotStar(Tail(s))

HttpLit == <<"h", "t", "t", "p">>
TmeLit == <<":", "/", "/", "t", ".", "m", "e", "/">>

\* number of characters "https?://t\.me/" consumes at the start of s, 0 when
\* it does not match there
TmePrefixLen(s) ==
    IF ~StartsWith(s, HttpLit) THEN 0
    ELSE LET a == Drop(s, Len(HttpLit))
         IN  IF StartsWith(a, <<"s">> \o TmeLit) THEN Len(HttpLit) + 1 + Len(TmeLit)
             ELSE IF StartsWith(a, TmeLit) THEN Len(HttpLit) + Len(TmeLit)
             ELSE 0

\* re.match(r"https?://t\.me/(.+)", raw): the group, <<>> when there is no match
\* (a match always has a non-empty group)
TmeGroup(s) ==
    LET n == TmePrefixLen(s)
    IN  IF n = 0 THEN <<>> ELSE DotStar(Drop(s, n))

\* parse_channel_identifier
parse_channel_identifier(raw) ==
    LET r == strip(raw)
        g == TmeGroup(r)
    IN  IF g # <<>> THEN g
        ELSE IF StartsWith(r, <<"@">>) THEN Drop(r, 1)
        ELSE r

\* ------------------------------------------------------------- formatting
Digit(d) == <<"0", "1", "2", "3", "4", "5", "6", "7", "8", "9">>[d + 1]

DigitChars == {Digit(d) : d \in 0..9}

\* str(n) for n >= 0
RECURSIVE IntToStr(_)
IntToStr(n) ==
    IF n < 10 THEN <<Digit(n)>> ELSE IntToStr(n \div 10) \o <<Digit(n % 10)>>

\* "%0<w>d" % n
RECURSIVE Pad(_, _)
Pad(n, w) ==
    LET s == IntToStr(n)
    IN  IF Len(s) >= w THEN s ELSE <<"0">> \o Pad(n, w - 1)

\* datetime.isoformat(): YYYY-MM-DDTHH:MM:SS, then .ffffff when the
\* microsecond is not 0, then +00:00 when the value is timezone-aware (UTC)
isoformat(d) ==
    Pad(d.year, 4) \o <<"-">> \o Pad(d.month, 2) \o <<"-">> \o Pad(d.day, 2)
    \o <<"T">> \o Pad(d.hour, 2) \o <<":">> \o Pad(d.minute, 2) \o <<":">>
    \o Pad(d.second, 2)
    \o (IF d.microsecond # 0 THEN <<".">> \o Pad(d.microsecond, 6) ELSE <<>>)
    \o (IF d.utc THEN <<"+", "0", "0", ":", "0", "0">> ELSE <<>>)

\* f"[id:{msg.id} | date:{msg.date.isoformat()}]"
MetaLine(m) ==
    <<"[", "i", "d", ":">> \o IntToStr(m.id)
    \o <<" ", "|", " ", "d", "a", "t", "e", ":">> \o isoformat(m.date)
    \o <<"]">>


\* ---------------------------------------------------------------- messages
\* an attribute that is None, or a str
NoneVal == [isNone |-> TRUE, s |-> <<>>]
Str(s) == [isNone |-> FALSE, s |-> s]

\* "x or ''"
OrEmpty(v) == IF v.isNone THEN <<>> ELSE v.s

\* truth value of an attribute: None and "" are false
Truthy(v) == ~v.isNone /\ v.s # <<>>

Date1 ==
    [year |-> 2024, month |-> 1, day |-> 1, hour |-> 0, minute |-> 0,
     second |-> 0, microsecond |-> 0, utc |-> FALSE]
Date2 ==
    [year |-> 2024, month |-> 1, day |-> 2, hour |-> 3, minute |-> 4,
     second |-> 5, microsecond |-> 0, utc |-> TRUE]

\* the messages a history is made of, by key: a caption-only message (its
\* caption ends in a newline), a message with neither body nor caption, a
\* message with both, and a message whose body reads like a metadata line
MsgKeys == {"caption", "empty", "both", "mimic"}

MessageTable ==
    [k \in MsgKeys |->
       CASE k = "caption" ->
              [id |-> 2, date |-> Date2, message |-> Str(<<>>),
               caption |-> Str(<<"p", "\n">>)]
         [] k = "empty" ->
              [id |-> 3, date |-> Date1, message |-> NoneVal, caption |-> Str(<<>>)]
         [] k = "both" ->
              [id |-> 40, date |-> Date2, message |-> Str(<<"b">>),
               caption |-> Str(<<"c">>)]
         [] k = "mimic" ->
              [id |-> 5, date |-> Date1,
               message |-> Str(MetaLine([id |-> 1, date |-> Date1])),
               caption |-> NoneVal]]

Message(k) == MessageTable[k]

\* all histories of at most n messages
Histories(n) == UNION {[1..l -> MsgKeys] : l \in 0..n}

\* a long history of text messages, with the message at position skipAt (if
\* any) one that has no text
LongHistory(skipAt) ==
    [i \in 1..LongLen |-> IF i = skipAt THEN "empty" ELSE "both"]

\* ------------------------------------------------------------------- state
VARIABLES
    pc,            \* where the run is
    api_id,        \* int(os.environ.get("TELEGRAM_API_ID", "0"))
    api_hash,      \* os.environ.get("TELEGRAM_API_HASH"), "" when unset
    channel,       \* argument: the raw channel identifier
    separator,     \* argument
    include_meta,  \* argument
    try_join,      \* argument
    history,       \* the channel's messages, oldest first (keys of Message)
    pre,           \* the output location before the run
    channel_norm,  \* parse_channel_identifier(channel)
    dirExists,     \* output_path.parent exists
    fileExists,    \* output_path exists
    file,          \* contents of output_path as written through f (what is
                   \* on disk once f is flushed by its close)
    f,             \* the file object: "none", "open" or "closed"
    writes,        \* the arguments of the f.write calls, in order
    pos,           \* messages iter_messages has yielded
    count,         \* count
    notices,       \* the counts of the progress lines printed
    reported,      \* the count of the "Done." line, -1 before it is printed
    lookup,        \* what client.get_entity returned
    entity,        \* what ensure_joined returned
    joinCalls,     \* JoinChannelRequest calls made
    joinResult,    \* outcome of the join request
    error          \* the exception that ended the run, "none" if none

vars ==
    <<pc, api_id, api_hash, channel, separator, include_meta, try_join, history,
      pre, channel_norm, dirExists, fileExists, file, f, writes, pos, count,
      notices, reported, lookup, entity, joinCalls, joinResult, error>>

inputs == <<api_id, api_hash, channel, separator, include_meta, try_join, history, pre>>

\* progress is printed every so many exported messages
ProgressEvery == 500

DefaultSeparator == <<"\n", "\n">>
CustomSeparator == <<"-", "-", "-", "\n">>
Separators == {DefaultSeparator, CustomSeparator}

\* identifiers the export is run on
Channels == {<<" ", "@", "a">>, <<"h", "t", "t", "p", "s">> \o TmeLit \o <<"b">>}

\* the output location before the run: nothing there, or a file from an
\* earlier run
PreStates ==
    {[dir |-> FALSE, exists |-> FALSE, content |-> <<>>],
     [dir |-> TRUE, exists |-> TRUE, content |-> <<"o", "l", "d">>]}

NoEntity == [peer |-> <<"?">>]
\* the handle the provider has for an identifier
EntityOf(name) == [peer |-> name]

\* outcomes of the join request: success, UserAlreadyParticipantError, any
\* other Exception
JoinOutcomes == {"joined", "already", "error"}

\* state shared by every initial state
InitRun ==
    /\ channel_norm = <<>>
    /\ dirExists = pre.dir
    /\ fileExists = pre.exists
    /\ file = pre.content
    /\ f = "none"
    /\ writes = <<>>
    /\ pos = 0
    /\ count = 0
    /\ notices = <<>>
    /\ reported = -1
    /\ lookup = NoEntity
    /\ entity = NoEntity
    /\ joinCalls = 0
    /\ joinResult = "none"
    /\ error = "none"

Init ==
    /\ pc = "start"
    /\ api_id \in {0, 7}
    /\ api_hash \in {<<>>, <<"k">>}
    /\ channel \in Channels
    /\ separator \in Separators
    /\ include_meta \in BOOLEAN
    /\ try_join \in BOOLEAN
    /\ history \in Histories(MaxMsgs)
    /\ pre \in PreStates
    /\ InitRun

\* ----------------------------------------------------------------- actions
\* lines 49-61: the credentials check, the normalization, the parent mkdir
CheckConfig ==
    /\ pc = "start"
    /\ IF api_id = 0 \/ api_hash = <<>>
       THEN /\ pc' = "failed"
            /\ error' = "config"
            /\ UNCHANGED <<channel_norm, dirExists>>
       ELSE /\ channel_norm' = parse_channel_identifier(channel)
            /\ dirExists' = TRUE
            /\ pc' = "resolve"
            /\ UNCHANGED error
    /\ UNCHANGED <<inputs, fileExists, file, f, writes, pos, count, notices,
                   reported, lookup, entity, joinCalls, joinResult>>

\* what ensure_joined returns once the lookup gave e
ensure_joined_result(e) == e

\* line 29, and line 39 when try_join is false: the entity lookup (the
\* client of line 63 is taken to connect)
GetEntity ==
    /\ pc = "resolve"
    /\ \/ /\ lookup' = EntityOf(channel_norm)
          /\ IF try_join
             THEN pc' = "join" /\ UNCHANGED entity
             ELSE pc' = "open" /\ entity' = ensure_joined_result(lookup')
          /\ UNCHANGED error
       \/ /\ pc' = "failed"
          /\ error' = "resolution"
          /\ UNCHANGED <<lookup, entity>>
    /\ UNCHANGED <<inputs, channel_norm, dirExists, fileExists, file, f, writes,
                   pos, count, notices, reported, joinCalls, joinResult>>

\* only UserAlreadyParticipantError is caught
JoinPropagates_other(r) == r = "error"

\* what a join outcome does to the run: every exception is swallowed
JoinPropagates(r) == FALSE

\* lines 31-39: the join attempt
JoinChannel ==
    /\ pc = "join"
    /\ \E r \in JoinOutcomes :
         /\ joinResult' = r
         /\ joinCalls' = joinCalls + 1
         /\ IF JoinPropagates(r)
            THEN pc' = "failed" /\ error' = "join" /\ UNCHANGED entity
            ELSE pc' = "open" /\ entity' = ensure_joined_result(lookup)
                 /\ UNCHANGED error
    /\ UNCHANGED <<inputs, channel_norm, dirExists, fileExists, file, f, writes,
                   pos, count, notices, reported, lookup>>

\* lines 67-68: count = 0 and output_path.open("w")
OpenSink ==
    /\ pc = "open"
    /\ count' = 0
    /\ fileExists' = TRUE
    /\ file' = <<>>
    /\ f' = "open"
    /\ writes' = <<>>
    /\ pc' = "stream"
    /\ UNCHANGED <<inputs, channel_norm, dirExists, pos, notices, reported,
                   lookup, entity, joinCalls, joinResult, error>>

\* the caption is preferred to the body
ExportText_captionFirst(m) ==
    IF Truthy(m.caption) THEN OrEmpty(m.caption) ELSE OrEmpty(m.message)

\* lines 70-74: the text of a message, <<>> when it has none
ExportText(m) ==
    LET text == OrEmpty(m.message)
    IN  IF text # <<>> THEN text
        ELSE IF Truthy(m.caption) THEN OrEmpty(m.caption)
        ELSE <<>>

\* the metadata line is written whatever include_meta is
RecordWrites_alwaysMeta(m, text, sep, meta) ==
    <<MetaLine(m) \o <<"\n">>, text, sep>>

\* the text is right-stripped before it is written
RecordWrites_rstrip(m, text, sep, meta) ==
    (IF meta THEN <<MetaLine(m) \o <<"\n">>>> ELSE <<>>) \o <<RStrip(text), sep>>

\* lines 78-82: the f.write calls for a message with text
RecordWrites(m, text, sep, meta) ==
    (IF meta THEN <<MetaLine(m) \o <<"\n">>>> ELSE <<>>) \o <<text, sep>>

RECURSIVE Flatten(_)
Flatten(ws) == IF ws = <<>> THEN <<>> ELSE Head(ws) \o Flatten(Tail(ws))

\* line 84
ProgressDue(c) == c % ProgressEvery = 0

\* the progress check is made before the test that skips a message without
\* text
NextMessage_noticeOnSkip ==
    /\ pc = "stream"
    /\ pos < Len(history)
    /\ pos' = pos + 1
    /\ LET m == Message(history[pos + 1])
           text == ExportText(m)
           ws == RecordWrites(m, text, separator, include_meta)
       IN  IF text = <<>>
           THEN /\ UNCHANGED <<writes, file, count>>
                /\ notices' = IF ProgressDue(count) /\ count > 0
                              THEN Append(notices, count)
                              ELSE notices
           ELSE /\ writes' = writes \o ws
                /\ file' = file \o Flatten(ws)
                /\ count' = count + 1
                /\ notices' = IF ProgressDue(count') THEN Append(notices, count')
                                                      ELSE notices
    /\ UNCHANGED <<inputs, pc, channel_norm, dirExists, fileExists, f, reported,
                   lookup, entity, joinCalls, joinResult, error>>

\* lines 69-85: one turn of the loop, for the next message of the history
NextMessage ==
    /\ pc = "stream"
    /\ pos < Len(history)
    /\ pos' = pos + 1
    /\ LET m == Message(history[pos + 1])
           text == ExportText(m)
           ws == RecordWrites(m, text, separator, include_meta)
       IN  IF text = <<>>
           THEN UNCHANGED <<writes, file, count, notices>>
           ELSE /\ writes' = writes \o ws
                /\ file' = file \o Flatten(ws)
                /\ count' = count + 1
                /\ notices' = IF ProgressDue(count') THEN Append(notices, count')
                                                      ELSE notices
    /\ UNCHANGED <<inputs, pc, channel_norm, dirExists, fileExists, f, reported,
                   lookup, entity, joinCalls, joinResult, error>>

\* lines 68-69: the history is exhausted, the with block closes the file
StreamEnd ==
    /\ pc = "stream"
    /\ pos = Len(history)
    /\ f' = "closed"
    /\ pc' = "report"
    /\ UNCHANGED <<inputs, channel_norm, dirExists, fileExists, file, writes, pos,
                   count, notices, reported, lookup, entity, joinCalls,
                   joinResult, error>>

\* the failed fetch is swallowed and the loop goes on
StreamError_retry ==
    /\ pc = "stream"
    /\ error' = "streaming"
    /\ UNCHANGED <<inputs, pc, channel_norm, dirExists, fileExists, file, f,
                   writes, pos, count, notices, reported, lookup, entity,
                   joinCalls, joinResult>>

\* the file is opened without a with block: the exception leaves it open
StreamError_noClose ==
    /\ pc = "stream"
    /\ pc' = "failed"
    /\ error' = "streaming"
    /\ UNCHANGED <<inputs, channel_norm, dirExists, fileExists, file, f, writes,
                   pos, count, notices, reported, lookup, entity, joinCalls,
                   joinResult>>

\* lines 68-69: iter_messages raises; the with block closes the file and the
\* exception leaves export_channel_messages
StreamError ==
    /\ pc = "stream"
    /\ f' = "closed"
    /\ pc' = "failed"
    /\ error' = "streaming"
    /\ UNCHANGED <<inputs, channel_norm, dirExists, fileExists, file, writes, pos,
                   count, notices, reported, lookup, entity, joinCalls,
                   joinResult>>

\* line 87
Report ==
    /\ pc = "report"
    /\ reported' = count
    /\ pc' = "done"
    /\ UNCHANGED <<inputs, channel_norm, dirExists, fileExists, file, f, writes,
                   pos, count, notices, lookup, entity, joinCalls, joinResult,
                   error>>

Next ==
    \/ CheckConfig
    \/ GetEntity
    \/ JoinChannel
    \/ OpenSink
    \/ NextMessage
    \/ StreamEnd
    \/ StreamError
    \/ Report

Spec == Init /\ [][Next]_vars

\* ------------------------------------------- the normalizer on its own
\* pieces raw identifiers are assembled from: an "@", name characters, white
\* space, t.me URLs of both schemes, a URL of another host and one whose host
\* differs from t.me in the dot
Chunks ==
    {<<"@">>, <<"a">>, <<" ">>, <<"\n">>,
     <<"h", "t", "t", "p", "s">> \o TmeLit,
     <<"h", "t", "t", "p">> \o TmeLit,
     <<"h", "t", "t", "p", "s", ":", "/", "/", "x", ".", "i", "o", "/">>,
     <<"h", "t", "t", "p", ":", "/", "/", "t", "x", "m", "e", "/">>}

\* all concatenations of at most n chunks
RECURSIVE ChunkStrings(_)
ChunkStrings(n) ==
    IF n = 0 THEN {<<>>}
    ELSE LET S == ChunkStrings(n - 1)
         IN  S \cup {s \o c : s \in S, c \in Chunks}

\* characters of channel names
NameChars == {"a", "1", "_"}

\* channel names: non-empty, of at most n name characters
Names(n) == UNION {[1..l -> NameChars] : l \in 1..n}

\* the four accepted forms of a name
FormPrefixes ==
    {<<>>, <<"@">>, <<"h", "t", "t", "p", "s">> \o TmeLit,
     <<"h", "t", "t", "p">> \o TmeLit}

\* white space around an identifier
Paddings == {<<>>, <<" ">>, <<"\n", "\t">>}

AcceptedForms(name) ==
    {l \o p \o name \o t : l \in Paddings, p \in FormPrefixes, t \in Paddings}

NormInputs ==
    ChunkStrings(MaxChunks) \cup UNION {AcceptedForms(n) : n \in Names(MaxNameLen)}

InitNorm ==
    /\ pc = "normalize"
    /\ channel \in NormInputs
    /\ api_id = 7
    /\ api_hash = <<"k">>
    /\ separator = DefaultSeparator
    /\ include_meta = FALSE
    /\ try_join = FALSE
    /\ history = <<>>
    /\ pre = [dir |-> FALSE, exists |-> FALSE, content |-> <<>>]
    /\ InitRun

\* line 58 on its own: channel_norm = parse_channel_identifier(channel)
Normalize ==
    /\ pc = "normalize"
    /\ channel_norm' = parse_channel_identifier(channel)
    /\ pc' = "normalized"
    /\ UNCHANGED <<inputs, dirExists, fileExists, file, f, writes, pos, count,
                   notices, reported, lookup, entity, joinCalls, joinResult,
                   error>>

NextNorm == Normalize

SpecNorm == InitNorm /\ [][NextNorm]_vars

\* ------------------------------------------------------- the long histories
\* positions of the message without text in the long histories: none, the
\* 500th message, the message right after the 500th
LongSkips == {0, ProgressEvery, ProgressEvery + 1}

InitLong ==
    /\ pc = "start"
    /\ api_id \in {0, 7}
    /\ api_hash \in {<<>>, <<"k">>}
    /\ channel = <<" ", "@", "a">>
    /\ separator = DefaultSeparator
    /\ include_meta = FALSE
    /\ try_join \in BOOLEAN
    /\ history \in {LongHistory(k) : k \in LongSkips}
    /\ pre = [dir |-> FALSE, exists |-> FALSE, content |-> <<>>]
    /\ InitRun

SpecLong == InitLong /\ [][Next]_vars

\* ------------------------------------------------ vocabulary of the claims
\* the messages iter_messages has yielded so far
Streamed == SubSeq(history, 1, pos)

Body(m) == OrEmpty(m.message)
Caption(m) == OrEmpty(m.caption)

\* the message has a non-empty body or caption
HasText(m) == Body(m) # <<>> \/ Caption(m) # <<>>

\* its body if non-empty, otherwise its caption
Projected(m) == IF Body(m) # <<>> THEN Body(m) ELSE Caption(m)

\* the same, and the formatted metadata line, by message key
HasTextOf == [k \in MsgKeys |-> HasText(Message(k))]
ProjectedOf == [k \in MsgKeys |-> Projected(Message(k))]
MetaLineOf == [k \in MsgKeys |-> MetaLine(Message(k))]

\* the yielded messages that have text, in order
ExportedKeys == SelectSeq(Streamed, LAMBDA k : HasTextOf[k])

TextsOf(keys) == [i \in 1..Len(keys) |-> ProjectedOf[keys[i]]]

ExpectedTexts == TextsOf(ExportedKeys)

\* f.write calls per exported record
Stride == IF include_meta THEN 3 ELSE 2

\* the texts written: the call before each separator
WrittenTexts == [i \in 1..(Len(writes) \div Stride) |-> writes[Stride * i - 1]]

\* (metadata line and newline, if include_meta) + text + separator
Block(k) ==
    (IF include_meta THEN MetaLineOf[k] \o <<"\n">> ELSE <<>>)
    \o ProjectedOf[k] \o separator

RECURSIVE Concat(_)
Concat(ss) == IF ss = <<>> THEN <<>> ELSE Head(ss) \o Concat(Tail(ss))

FileOf(keys) == Concat([i \in 1..Len(keys) |-> Block(keys[i])])

ExpectedFile == FileOf(ExportedKeys)

\* offset in the file at which the k-th record starts
RECURSIVE LenSum(_, _)
LenSum(ws, n) == IF n = 0 THEN 0 ELSE LenSum(ws, n - 1) + Len(ws[n])

BlockStart(k) == LenSum(writes, Stride * (k - 1))

\* the line of s that starts at offset i
LineAt(s, i) == DotStar(Drop(s, i))

\* the lines of s
Lines(s) == {LineAt(s, i) : i \in {0} \cup {j \in 1..Len(s) : s[j] = "\n"}}

\* s[a+1..a+Len(t)] is t
HasAt(s, a, t) == a + Len(t) <= Len(s) /\ SubSeq(s, a + 1, a + Len(t)) = t

AllDigits(s) == \A i \in 1..Len(s) : s[i] \in DigitChars

\* +HH:MM or -HH:MM
IsOffset(t) ==
    /\ Len(t) = 6
    /\ t[1] \in {"+", "-"}
    /\ t[4] = ":"
    /\ AllDigits(<<t[2], t[3], t[5], t[6]>>)

\* .ffffff
IsFraction(t) == Len(t) = 7 /\ t[1] = "." /\ AllDigits(Tail(t))

\* an ISO-8601 date-time: YYYY-MM-DDTHH:MM:SS[.ffffff][+HH:MM]
IsIso(s) ==
    /\ Len(s) >= 19
    /\ \A i \in 1..19 :
         IF i \in {5, 8} THEN s[i] = "-"
         ELSE IF i = 11 THEN s[i] = "T"
         ELSE IF i \in {14, 17} THEN s[i] = ":"
         ELSE s[i] \in DigitChars
    /\ LET t == Drop(s, 19)
       IN  \/ t = <<>>
           \/ IsOffset(t)
           \/ IsFraction(t)
           \/ Len(t) = 13 /\ IsFraction(SubSeq(t, 1, 7)) /\ IsOffset(Drop(t, 7))

IdLit == <<"[", "i", "d", ":">>
DateLit == <<" ", "|", " ", "d", "a", "t", "e", ":">>

\* the line has the form [id:<integer> | date:<ISO-8601>]
IsMetaLine(l) ==
    /\ StartsWith(l, IdLit)
    /\ l[Len(l)] = "]"
    /\ \E n \in 1..Len(l) :
         /\ Len(IdLit) + n + Len(DateLit) < Len(l)
         /\ AllDigits(SubSeq(l, Len(IdLit) + 1, Len(IdLit) + n))
         /\ HasAt(l, Len(IdLit) + n, DateLit)
         /\ IsIso(SubSeq(l, Len(IdLit) + n + Len(DateLit) + 1, Len(l) - 1))

NoBracket(s) == \A i \in 1..Len(s) : s[i] # "["

\* the sink has been opened
Opened == f # "none"

\* ------------------------------------------------------------------ claims
\* C1: the texts written are the streamed messages that have a non-empty
\* body or caption, in stream order, each projected to its body if non-empty
\* and otherwise to its caption; the counter is the number of texts written
\* (a message with neither adds nothing); after a run without error the whole
\* history has been streamed and the reported count is that number.
C1_ExportedTextsAreProjection ==
    Opened =>
      LET written == WrittenTexts
      IN  /\ written = ExpectedTexts
          /\ count = Len(written)
          /\ Len(writes) = Stride * count
          /\ pc = "done" => pos = Len(history) /\ reported = Len(written)

C1_Witness ==
    /\ pc = "done"
    /\ history = <<"caption", "empty", "both">>
    /\ WrittenTexts = <<<<"p", "\n">>, <<"b">>>>
    /\ reported = 2

\* C2: when streaming fails after k messages were exported, the file holds
\* exactly those k records, whole and in order, nothing of later messages,
\* the run ends with the propagated error, reports no completion, and the
\* failed fetch is not retried.
C2_StreamingFailureLeavesPrefix ==
    /\ error # "none" => pc = "failed"
    /\ error = "streaming" =>
         /\ file = ExpectedFile
         /\ count = Len(ExportedKeys)
         /\ reported = -1

C2_Witness ==
    /\ pc = "failed"
    /\ error = "streaming"
    /\ count = 2
    /\ pos = 2
    /\ Len(history) = 3
    /\ HasTextOf[history[3]]
    /\ file = ExpectedFile

\* C3 (as claimed): a run that fails with a configuration or a resolution
\* error has had no effect on the output location: the sink was never
\* opened, the file is as it was, the parent directory was not created.
C3_NoOutputEffectBeforeFailure ==
    (pc = "failed" /\ error \in {"config", "resolution"}) =>
      /\ f = "none"
      /\ fileExists = pre.exists
      /\ file = pre.content
      /\ dirExists = pre.dir

\* C4: once the lookup has succeeded, ensure_joined returns the handle the
\* lookup returned, whatever the join request did and also without a join;
\* no join error ends the run; the join is attempted once if try_join and
\* never otherwise; the run then goes on to open the sink and stream.
C4_EnsureJoinedReturnsLookup ==
    /\ error # "join"
    /\ joinCalls = (IF try_join /\ joinResult # "none" THEN 1 ELSE 0)
    /\ joinResult # "none" => \/ pc \in {"open", "stream", "report", "done"}
                              \/ pc = "failed" /\ error = "streaming"
    /\ (pc \in {"open", "stream", "report", "done"} \/ error = "streaming") =>
         /\ lookup # NoEntity
         /\ entity = lookup
         /\ try_join <=> joinResult # "none"

C4_Witness ==
    /\ pc = "stream"
    /\ joinResult = "error"
    /\ joinCalls = 1
    /\ entity = lookup
    /\ entity = EntityOf(<<"b">>)

\* C5 (as claimed): for a non-empty input, the normalized identifier holds
\* no URL scheme and does not begin with "@".
C5_NormalizedHasNoSchemeNoAt ==
    (pc = "normalized" /\ channel # <<>>) =>
      /\ ~Contains(channel_norm, <<":", "/", "/">>)
      /\ ~StartsWith(channel_norm, <<"@">>)

\* C6: the four accepted forms of a channel name (name, @name,
\* https://t.me/name, http://t.me/name), with or without white space around
\* them, are all normalized to the name.
C6_AcceptedFormsNormalizeToName ==
    pc = "normalized" =>
      \A name \in Names(MaxNameLen) :
        channel \in AcceptedForms(name) => channel_norm = name

C6_Witness ==
    /\ pc = "normalized"
    /\ channel = <<"\n", "\t", "h", "t", "t", "p">> \o TmeLit \o <<"a", "_", " ">>
    /\ channel_norm = <<"a", "_">>

\* every record starts with the metadata line of its own message, a newline
\* and then the message's text
MetaLeadsEveryBlock ==
    LET keys == ExportedKeys
    IN  \A k \in 1..Len(keys) :
          LET start == BlockStart(k)
              meta == MetaLineOf[keys[k]]
          IN  /\ start <= Len(file)
              /\ LineAt(file, start) = meta
              /\ HasAt(file, start + Len(meta), <<"\n">> \o ProjectedOf[keys[k]])

\* every record starts with the message's text
TextLeadsEveryBlock ==
    LET keys == ExportedKeys
    IN  \A k \in 1..Len(keys) : HasAt(file, BlockStart(k), ProjectedOf[keys[k]])

NoMetaLineInFile == \A l \in Lines(file) : ~IsMetaLine(l)

\* C7 (as claimed): with include_meta every record's first line is the
\* metadata line of the message whose text follows; without it no line of
\* the form [id:<integer> | date:<ISO-8601>] is in the file.
C7_MetaLinesOnlyWithIncludeMeta ==
    Opened =>
      /\ include_meta => MetaLeadsEveryBlock
      /\ ~include_meta => NoMetaLineInFile

\* C7 (amended): with include_meta every record's first line is the metadata
\* line of the message whose text follows; without it every record starts
\* with the message's text, and a line of the metadata form is in the file
\* only if the texts or the separator supply it: none is when neither the
\* exported texts nor the separator hold a "[".
C7_MetaLinesOnlyFromTexts ==
    Opened =>
      /\ include_meta => MetaLeadsEveryBlock
      /\ ~include_meta =>
           /\ TextLeadsEveryBlock
           /\ ( /\ NoBracket(separator)
                /\ \A k \in 1..pos : NoBracket(ProjectedOf[history[k]]) )
              => NoMetaLineInFile

C7_Witness ==
    /\ pc = "done"
    /\ include_meta
    /\ separator = CustomSeparator
    /\ history = <<"caption", "mimic", "both">>
    /\ LineAt(file, BlockStart(3)) = MetaLineOf["both"]

\* C8: the file is the concatenation, per exported message and in order, of
\* (metadata line and newline, if include_meta) + text + separator, and
\* nothing else.
C8_FileIsConcatenationOfBlocks ==
    Opened => file = ExpectedFile

C8_Witness ==
    /\ pc = "done"
    /\ ~include_meta
    /\ separator = CustomSeparator
    /\ history = <<"caption", "empty", "both">>
    /\ file = <<"p", "\n", "-", "-", "-", "\n", "b", "-", "-", "-", "\n">>

\* C9: once opened, the sink is closed on every exit path: no run ends with
\* the file open, the file is closed before the final count is reported, and
\* nothing is written once it is closed.
C9_SinkClosedOnEveryExit ==
    /\ [](pc \in {"done", "failed"} => f # "open")
    /\ [](pc \in {"report", "done"} \/ error = "streaming" => f = "closed")
    /\ [](reported # -1 => f = "closed")
    /\ [][f = "closed" => f' = "closed" /\ file' = file /\ writes' = writes]_vars

C9_Witness ==
    /\ pc = "failed"
    /\ error = "streaming"
    /\ f = "closed"
    /\ count = 2

\* C10: a progress notice is printed exactly when the counter reaches a
\* positive multiple of 500, in the turn that wrote that record: the notices
\* so far number count \div 500 and name 500, 1000, ...; a skipped message
\* prints none; the notice leaves the counter, the file and the order of the
\* messages as they would be without it.
C10_NoticeEvery500 ==
    /\ [](/\ Len(notices) = count \div ProgressEvery
          /\ \A i \in 1..Len(notices) : notices[i] = i * ProgressEvery
          /\ Len(writes) = Stride * count)
    /\ [][ /\ count' = count => notices' = notices
           /\ notices' # notices =>
                /\ count' = count + 1
                /\ count' % ProgressEvery = 0
                /\ pos' = pos + 1
                /\ pc' = pc
                /\ LET k == history[pos']
                   IN  /\ HasTextOf[k]
                       /\ Len(file') = Len(file) + Len(Block(k))
                       /\ HasAt(file', Len(file), Block(k)) ]_vars

C10_Witness ==
    /\ pc = "done"
    /\ history[ProgressEvery + 1] = "empty"
    /\ notices = <<ProgressEvery, 2 * ProgressEvery>>
    /\ count = 2 * ProgressEvery

=============================================================================
